---- MODULE Spec2Model ----
(***************************************************************************)
(* SecurityManager of desktop/src-tauri/src/security/mod.rs: a KeyStore    *)
(* (active_key, previous_keys) behind a tokio RwLock, rotated by           *)
(* rotate_keys and read by encrypt / decrypt.                              *)
(*                                                                         *)
(* Keys are the values drawn from SystemRandom: the i-th successful        *)
(* generate_key yields a 32-byte key that differs from every earlier one   *)
(* (id i).  ChaCha20-Poly1305 is modelled by what it does to the buffer:   *)
(* a keystream xored into every byte and a 16-element tag appended, the tag *)
(* being an ideal MAC of (key, ciphertext); the nonce is the constant      *)
(* [0u8; 12], so the keystream and the tag depend on the key alone.        *)
(* The RwLock is tokio's: a FIFO queue of waiters, readers shared, the     *)
(* writer exclusive.                                                       *)
(*                                                                         *)
(* Spec / FairSpec: concurrent tasks calling rotate_keys, encrypt, decrypt.*)
(* CipherSpec: one caller, decrypt fed with altered blobs.                 *)
(* StoreSpec: the credential calls of ui/settings_window.rs.               *)
(* PasswordSpec: hash_password and verify_password.                        *)
(* WsSpec: WebSocketManager::connect of sessions/websocket.rs.             *)
(* MonitorSpec: SessionMonitor of sessions/monitor.rs.                     *)
(* ServerSpec: ServerManager of server/manager.rs and the server calls of  *)
(* server/mod.rs.                                                          *)
(* LogSpec: the log buffer of lib.rs.                                      *)
(***************************************************************************)
EXTENDS Integers, Sequences, FiniteSets, TLC

\* ---- bounds of the model -------------------------------------------------
MaxRotations == 4
MaxLen == 1
MaxSalts == 2
MaxFrames == 2
MaxSpawns == 3
MaxChildren == 3
MaxLogs == 203

\* ---- constants of the program --------------------------------------------
RETENTION == 2
KEY_LEN == 32
TAG_LEN == 16
NONCE_LEN == 12
SALT_LEN == 16
SHA512_OUTPUT_LEN == 64
MAX_HEALTH_CHECK_ATTEMPTS == 10
MAX_LOG_ENTRIES == 200

\* the concurrent callers of one SecurityManager
Tasks == {"t1", "t2", "t3"}
\* a byte of a buffer, narrowed to its lowest bit
Bytes == {0, 1}
Plaintexts == UNION {[1..n -> Bytes] : n \in 0..MaxLen}

VARIABLES
    active_key,     \* KeyStore.active_key
    previous_keys,  \* KeyStore.previous_keys
    rng,            \* number of keys drawn from SystemRandom so far
    queue,          \* tasks waiting for the RwLock, in arrival order
    pc,             \* where each task is in its call
    op,             \* the call each task is making
    arg,            \* its argument (with the plaintext and key it came from)
    res,            \* its result, once the body has run
    new_key,        \* rotate_keys' local new_key
    seen,           \* the KeyStore as the body of encrypt / decrypt read it
    saved,          \* the blob returned by encrypt that a caller kept
    rotations,      \* number of rotate_keys calls that reached Ok(())
    pre_key,        \* the active key a rotate_keys call found when it got the lock
    overlap,        \* per pending rotate_keys call: the blob of the last encrypt
                    \* call that returned while the rotation was pending
    last,           \* the last call of a caller that makes one call at a time
    entries,        \* the credential store: name -> kept blob
    truth,          \* per name: the value of the last successful store that no
                    \* delete followed, and the rotations that preceded it
    salts,          \* number of salts drawn from SystemRandom so far
    pwhash,         \* the password hash a caller kept, and its password
    ws_pc,          \* where WebSocketManager::connect is
    server_url,     \* connect's argument
    ws_url,         \* connect's local ws_url, once parsed
    connected,      \* WebSocketManager.connected
    stream,         \* the read half of the socket: none, open, error, ended
    inbox,          \* the frames read from the socket so far
    event_sender,   \* the messages sent on the broadcast channel so far
    warnings,       \* number of "Message sanitization failed" log entries
    sanitized,      \* what sanitize_message returned for the last frame
    ws_res,         \* what connect returned
    response,       \* the status of the response connect_async gave, 0 if none
    observed,       \* what the last is_connected() call answered
    monitoring,     \* SessionMonitor.monitoring
    pollers,        \* the tasks start_monitoring spawned, in order: where each is
    sessions,       \* SessionMonitor.sessions: id -> state, or absent
    events,         \* the events the last poll sent
    mon_res,        \* what the last start_monitoring call returned
    process,        \* ServerManager.process: the pid of the child held, 0 if none
    server_process, \* AppState.server_process, likewise
    children,       \* number of children spawned so far
    running,        \* the children that are alive
    srv_res,        \* the last server call and what it returned
    LOG_BUFFER,     \* the log buffer: the entries kept, oldest first
    log_count,      \* number of add_log_entry calls so far
    log_res         \* the last log call and what it returned

vars == <<active_key, previous_keys, rng, queue, pc, op, arg, res, new_key,
          seen, saved, rotations, pre_key, overlap, last, entries, truth,
          salts, pwhash, ws_pc, server_url, ws_url, connected, stream, inbox,
          event_sender, warnings, sanitized, ws_res, response, observed,
          monitoring, pollers, sessions, events, mon_res, process,
          server_process, children, running, srv_res, LOG_BUFFER, log_count,
          log_res>>

\* the KeyStore and its ghosts; the state of the concurrent tasks; the state
\* of the one-call-at-a-time callers
keyvars == <<active_key, previous_keys, rng, rotations>>
taskvars == <<queue, pc, op, arg, res, new_key, seen, pre_key, overlap>>
storevars == <<entries, truth>>
passvars == <<salts, pwhash>>
wsvars == <<ws_pc, server_url, ws_url, connected, stream, inbox, event_sender,
            warnings, sanitized, ws_res, response, observed>>
monvars == <<monitoring, pollers, sessions, events, mon_res>>
srvvars == <<process, server_process, children, running, srv_res>>
logvars == <<LOG_BUFFER, log_count, log_res>>
appvars == <<monvars, srvvars, logvars>>
seqvars == <<last, storevars, passvars, wsvars, appvars>>
cryptvars == <<keyvars, taskvars, saved, last, storevars, passvars>>

\* ---- values --------------------------------------------------------------
EmptyKey == [len |-> 0, id |-> 0]
NoArg == [data |-> <<>>, pt |-> <<>>, key |-> 0, rots |-> 0, nonce |-> <<>>]
NoRes == [ok |-> FALSE, val |-> <<>>, set |-> FALSE]
Err == [ok |-> FALSE, val |-> <<>>, set |-> TRUE]
Ok(v) == [ok |-> TRUE, val |-> v, set |-> TRUE]
\* results of the credential calls, with the kind of SecurityError
NoRet == [ok |-> FALSE, val |-> <<>>, err |-> "unset"]
Done(v) == [ok |-> TRUE, val |-> v, err |-> "none"]
Failed(e) == [ok |-> FALSE, val |-> <<>>, err |-> e]
NoCall ==
    [op |-> "none", data |-> <<>>, mod |-> "none", res |-> NoRes,
     name |-> "", ret |-> NoRet, crypto |-> FALSE, changed |-> {},
     had |-> FALSE, again |-> FALSE, input |-> [kind |-> "none", pos |-> 0],
     steps |-> 0]
\* the credential names the settings window uses
Names == {"ngrok_token", "test_key"}
\* the sessions the server may report
SessionIds == {"s1"}
Absent == [present |-> FALSE, data |-> <<>>]
NoTruth == [set |-> FALSE, val |-> <<>>, rots |-> 0]
NoHash == [set |-> FALSE, pw |-> <<>>, hash |-> <<>>, rots |-> 0]
NoUrl == [kind |-> "none", scheme |-> "", host |-> "", path |-> ""]
NoWsUrl == [scheme |-> "", host |-> "", path |-> NoUrl]
\* Option<Child>::None
NoChild == 0
NoServerCall ==
    [op |-> "none", ret |-> NoRet, had |-> FALSE, spawned |-> FALSE,
     attempts |-> 0]
\* Option<usize>: None, Some(val)
NoLimit == [some |-> FALSE, val |-> 0]
SomeLimit(k) == [some |-> TRUE, val |-> k]
NoLogCall == [op |-> "none", limit |-> NoLimit, logs |-> <<>>]
NoSeen == [active |-> EmptyKey, previous |-> <<>>, rots |-> 0, set |-> FALSE]

is_empty(key) == key.len = 0

\* ---- ring::aead, as the code uses it -------------------------------------
\* aead::Nonce::assume_unique_for_key([0u8; 12])
assume_unique_for_key == [i \in 1..NONCE_LEN |-> 0]

\* Variant: a key of any length is taken, padded as need be.
UnboundKeyNewAnyLength(key) == TRUE

UnboundKeyNew(key) == key.len = KEY_LEN

Xor(a, b) == (a + b) % Cardinality(Bytes)

KeyStream(key, i) == (key.id + i) % Cardinality(Bytes)

\* ChaCha20: the buffer xored with the keystream of (key, nonce)
ChaCha(key, data) == [i \in 1..Len(data) |-> Xor(data[i], KeyStream(key, i))]

RECURSIVE Code(_)
Code(data) ==
    IF data = <<>> THEN 1
    ELSE Code(SubSeq(data, 1, Len(data) - 1)) * Cardinality(Bytes) + data[Len(data)]

Radix == Cardinality(Bytes) ^ (MaxLen + 1)

\* Variant: the tag covers the key alone, not the ciphertext.
MacKeyOnly(key, ct) == key.id * Radix

Mac(key, ct) == key.id * Radix + Code(ct)

Tag(key, ct) == [j \in 1..TAG_LEN |-> Mac(key, ct)]

seal_in_place_append_tag(key, in_out) ==
    LET ct == ChaCha(key, in_out) IN ct \o Tag(key, ct)

open_in_place(key, in_out) ==
    IF Len(in_out) < TAG_LEN THEN Err
    ELSE LET n == Len(in_out) - TAG_LEN
             ct == SubSeq(in_out, 1, n)
             tag == SubSeq(in_out, n + 1, Len(in_out))
         IN  IF tag = Tag(key, ct) THEN Ok(ChaCha(key, ct) \o tag) ELSE Err

\* ---- SecurityManager: the bodies of encrypt and decrypt ------------------
truncate(in_out, n) == IF n < Len(in_out) THEN SubSeq(in_out, 1, n) ELSE in_out

\* Variant: the tag is left on the opened buffer.
try_decrypt_keeps_tag(encrypted_data, key) ==
    IF ~UnboundKeyNew(key) THEN Err ELSE open_in_place(key, encrypted_data)

\* Variant: the result of open_in_place is dropped (no `?`), the buffer returned.
try_decrypt_unchecked(encrypted_data, key) ==
    IF ~UnboundKeyNew(key) THEN Err
    ELSE Ok(truncate(encrypted_data, Len(encrypted_data) - TAG_LEN))

try_decrypt(encrypted_data, key) ==
    IF ~UnboundKeyNew(key) THEN Err
    ELSE LET opened == open_in_place(key, encrypted_data)
         IN  IF ~opened.ok THEN Err
             ELSE Ok(truncate(opened.val, Len(opened.val) - TAG_LEN))

encrypt(active, data) ==
    IF ~UnboundKeyNew(active) THEN Err
    ELSE Ok(seal_in_place_append_tag(active, data))

RECURSIVE decrypt_from(_, _, _)
decrypt_from(keys, i, encrypted_data) ==
    IF i > Len(keys) THEN Err
    ELSE LET r == try_decrypt(encrypted_data, keys[i])
         IN  IF r.ok THEN r ELSE decrypt_from(keys, i + 1, encrypted_data)

decrypt(active, previous, encrypted_data) ==
    decrypt_from(<<active>> \o previous, 1, encrypted_data)

\* ---- tokio::sync::RwLock -------------------------------------------------
\* A task holds the lock from the step that runs the first statement after
\* its .await to the step in which it returns and drops the guard.
ReadPcs == {"enc_ret", "dec_ret"}
WritePcs == {"rot_push", "rot_set", "rot_trim", "rot_ret"}

readers == {t \in Tasks : pc[t] \in ReadPcs}
writers == {t \in Tasks : pc[t] \in WritePcs}

\* Waiters are served in arrival order: the head of the queue is granted the
\* lock as soon as no writer holds it and, for a writer, no reader either.
Leave(q, t) == SelectSeq(q, LAMBDA x : x # t)

\* Variant: a reader does not wait for the writer to release.
GrantedNoExclusion(t, write) ==
    /\ pc[t] = "wait"
    /\ queue # <<>>
    /\ Head(queue) = t
    /\ write => (writers = {} /\ readers = {})

\* Variant: readers do not queue; they pass every waiting writer.
GrantedReadersBarge(t, write) ==
    /\ pc[t] = "wait"
    /\ writers = {}
    /\ write => (readers = {} /\ Head(queue) = t)

\* Variant: the lock is a mutex; a reader waits for the readers that hold it.
GrantedExclusive(t, write) ==
    /\ pc[t] = "wait"
    /\ queue # <<>>
    /\ Head(queue) = t
    /\ writers = {}
    /\ readers = {}

Granted(t, write) ==
    /\ pc[t] = "wait"
    /\ queue # <<>>
    /\ Head(queue) = t
    /\ writers = {}
    /\ write => readers = {}

\* ---- initial state: SecurityManager::new ---------------------------------
Init ==
    /\ active_key = EmptyKey
    /\ previous_keys = <<>>
    /\ rng = 0
    /\ queue = <<>>
    /\ pc = [t \in Tasks |-> "idle"]
    /\ op = [t \in Tasks |-> "none"]
    /\ arg = [t \in Tasks |-> NoArg]
    /\ res = [t \in Tasks |-> NoRes]
    /\ new_key = [t \in Tasks |-> EmptyKey]
    /\ seen = [t \in Tasks |-> NoSeen]
    /\ saved = NoArg
    /\ rotations = 0
    /\ pre_key = [t \in Tasks |-> EmptyKey]
    /\ overlap = [t \in Tasks |-> NoArg]
    /\ last = NoCall
    /\ entries = [n \in Names |-> Absent]
    /\ truth = [n \in Names |-> NoTruth]
    /\ salts = 0
    /\ pwhash = NoHash
    /\ ws_pc = "idle"
    /\ server_url = NoUrl
    /\ ws_url = NoWsUrl
    /\ connected = FALSE
    /\ stream = "none"
    /\ inbox = <<>>
    /\ event_sender = <<>>
    /\ warnings = 0
    /\ sanitized = NoRet
    /\ ws_res = NoRet
    /\ response = 0
    /\ observed = FALSE
    /\ monitoring = FALSE
    /\ pollers = <<>>
    /\ sessions = [id \in SessionIds |-> "absent"]
    /\ events = {}
    /\ mon_res = [ret |-> NoRet, had |-> FALSE]
    /\ process = NoChild
    /\ server_process = NoChild
    /\ children = 0
    /\ running = {}
    /\ srv_res = NoServerCall
    /\ LOG_BUFFER = <<>>
    /\ log_count = 0
    /\ log_res = NoLogCall

\* ---- a task starts a call and asks for the lock --------------------------
PendingRotations == {t \in Tasks : pc[t] # "idle" /\ op[t] = "rotate"}

Call(t, o, a) ==
    /\ pc[t] = "idle"
    /\ pc' = [pc EXCEPT ![t] = "wait"]
    /\ op' = [op EXCEPT ![t] = o]
    /\ arg' = [arg EXCEPT ![t] = a]
    /\ queue' = Append(queue, t)
    /\ UNCHANGED <<active_key, previous_keys, rng, res, new_key, seen, saved,
                   rotations, pre_key, overlap>>
    /\ UNCHANGED seqvars

CallRotate(t) ==
    /\ rng + Cardinality(PendingRotations) < MaxRotations
    /\ Call(t, "rotate", NoArg)

CallEncrypt(t) == Call(t, "encrypt", NoArg)

CallDecrypt(t) ==
    /\ saved # NoArg
    /\ Call(t, "decrypt", saved)

\* ---- rotate_keys, under the write lock -----------------------------------
\* Variant: the buffer is allocated but has no length, and fill() fills nothing.
generate_key_with_capacity(n) == [len |-> 0, id |-> n + 1]

generate_key(n) == [len |-> KEY_LEN, id |-> n + 1]

\* Variant: the active key is retired before the new key is drawn, so a
\* failing random source leaves the history changed.
RotGenerateRetiring(t) ==
    /\ op[t] = "rotate"
    /\ Granted(t, TRUE)
    /\ queue' = Leave(queue, t)
    /\ pre_key' = [pre_key EXCEPT ![t] = active_key]
    /\ \/ /\ new_key' = [new_key EXCEPT ![t] = generate_key(rng)]
          /\ rng' = rng + 1
          /\ pc' = [pc EXCEPT ![t] = "rot_push"]
          /\ UNCHANGED <<res, previous_keys>>
       \/ /\ res' = [res EXCEPT ![t] = Err]
          /\ pc' = [pc EXCEPT ![t] = "rot_ret"]
          /\ previous_keys' =
                IF is_empty(active_key) THEN previous_keys
                ELSE Append(previous_keys, active_key)
          /\ UNCHANGED <<new_key, rng>>
    /\ UNCHANGED <<active_key, op, arg, seen, saved, rotations, overlap>>
    /\ UNCHANGED seqvars

\* let mut key_store = self.key_store.write().await;
\* let new_key = self.generate_key()?;
RotGenerate(t) ==
    /\ op[t] = "rotate"
    /\ Granted(t, TRUE)
    /\ queue' = Leave(queue, t)
    /\ pre_key' = [pre_key EXCEPT ![t] = active_key]
    /\ \/ /\ new_key' = [new_key EXCEPT ![t] = generate_key(rng)]
          /\ rng' = rng + 1
          /\ pc' = [pc EXCEPT ![t] = "rot_push"]
          /\ UNCHANGED res
       \/ /\ res' = [res EXCEPT ![t] = Err]
          /\ pc' = [pc EXCEPT ![t] = "rot_ret"]
          /\ UNCHANGED <<new_key, rng>>
    /\ UNCHANGED <<active_key, previous_keys, op, arg, seen, saved, rotations,
                   overlap>>
    /\ UNCHANGED seqvars

\* Variant: the key in use is retired even when it is the empty placeholder.
PushAlways(active, previous) == Append(previous, active)

\* Variant: the retired key is dropped instead of kept.
PushNothing(active, previous) == previous

PushCurrent(active, previous) ==
    IF ~is_empty(active) THEN Append(previous, active) ELSE previous

RotPush(t) ==
    /\ pc[t] = "rot_push"
    /\ previous_keys' = PushCurrent(active_key, previous_keys)
    /\ pc' = [pc EXCEPT ![t] = "rot_set"]
    /\ UNCHANGED <<active_key, rng, queue, op, arg, res, new_key, seen, saved,
                   rotations, pre_key, overlap>>
    /\ UNCHANGED seqvars

RotSet(t) ==
    /\ pc[t] = "rot_set"
    /\ active_key' = new_key[t]
    /\ pc' = [pc EXCEPT ![t] = "rot_trim"]
    /\ UNCHANGED <<previous_keys, rng, queue, op, arg, res, new_key, seen, saved,
                   rotations, pre_key, overlap>>
    /\ UNCHANGED seqvars

remove(previous, index) ==
    [i \in 1..(Len(previous) - 1) |->
        IF i < index + 1 THEN previous[i] ELSE previous[i + 1]]

\* Variants of the trimming loop, as slips of lines 53-55 would make it.
RECURSIVE TrimTo(_, _)
TrimTo(previous, n) ==
    IF Len(previous) > n THEN TrimTo(remove(previous, 0), n) ELSE previous

TrimKeepsOne(previous) == TrimTo(previous, RETENTION - 1)

TrimKeepsThree(previous) == TrimTo(previous, RETENTION + 1)

TrimNone(previous) == previous

TrimNewest(previous) ==
    IF Len(previous) > RETENTION THEN SubSeq(previous, 1, RETENTION) ELSE previous

\* while key_store.previous_keys.len() > 2 { key_store.previous_keys.remove(0); }
RECURSIVE Trim(_)
Trim(previous) ==
    IF Len(previous) > RETENTION THEN Trim(remove(previous, 0)) ELSE previous

RotTrim(t) ==
    /\ pc[t] = "rot_trim"
    /\ previous_keys' = Trim(previous_keys)
    /\ res' = [res EXCEPT ![t] = Ok(<<>>)]
    /\ rotations' = rotations + 1
    /\ pc' = [pc EXCEPT ![t] = "rot_ret"]
    /\ UNCHANGED <<active_key, rng, queue, op, arg, new_key, seen, saved, pre_key,
                   overlap>>
    /\ UNCHANGED seqvars

\* ---- encrypt and decrypt, under the read lock ----------------------------
Snapshot ==
    [active |-> active_key, previous |-> previous_keys, rots |-> rotations,
     set |-> TRUE]

EncBody(t) ==
    /\ op[t] = "encrypt"
    /\ Granted(t, FALSE)
    /\ queue' = Leave(queue, t)
    /\ \E data \in Plaintexts :
          /\ res' = [res EXCEPT ![t] = encrypt(active_key, data)]
          /\ arg' = [arg EXCEPT ![t] = [data |-> data, pt |-> data,
                                         key |-> active_key.id, rots |-> rotations,
                                         nonce |-> assume_unique_for_key]]
    /\ seen' = [seen EXCEPT ![t] = Snapshot]
    /\ pc' = [pc EXCEPT ![t] = "enc_ret"]
    /\ UNCHANGED <<active_key, previous_keys, rng, op, new_key, saved, rotations,
                   pre_key, overlap>>
    /\ UNCHANGED seqvars

\* Variant: a decrypt that found no key forgets the retired keys.
DecBodyForgetting(t) ==
    /\ op[t] = "decrypt"
    /\ Granted(t, FALSE)
    /\ queue' = Leave(queue, t)
    /\ res' = [res EXCEPT ![t] = decrypt(active_key, previous_keys, arg[t].data)]
    /\ previous_keys' = IF res'[t].ok THEN previous_keys ELSE <<>>
    /\ seen' = [seen EXCEPT ![t] = Snapshot]
    /\ pc' = [pc EXCEPT ![t] = "dec_ret"]
    /\ UNCHANGED <<active_key, rng, op, arg, new_key, saved, rotations, pre_key,
                   overlap>>
    /\ UNCHANGED seqvars

DecBody(t) ==
    /\ op[t] = "decrypt"
    /\ Granted(t, FALSE)
    /\ queue' = Leave(queue, t)
    /\ res' = [res EXCEPT ![t] = decrypt(active_key, previous_keys, arg[t].data)]
    /\ seen' = [seen EXCEPT ![t] = Snapshot]
    /\ pc' = [pc EXCEPT ![t] = "dec_ret"]
    /\ UNCHANGED <<active_key, previous_keys, rng, op, arg, new_key, saved,
                   rotations, pre_key, overlap>>
    /\ UNCHANGED seqvars

\* ---- the call returns: the guard is dropped ------------------------------
\* The caller of encrypt may keep the blob it got, to decrypt it later; the
\* first blob kept is the one the later decrypt calls are given.
Blob(t) ==
    [data |-> res[t].val, pt |-> arg[t].pt, key |-> arg[t].key,
     rots |-> arg[t].rots, nonce |-> arg[t].nonce]

Keep(t) ==
    IF pc[t] = "enc_ret" /\ res[t].ok /\ saved = NoArg
    THEN {saved, Blob(t)}
    ELSE {saved}

Overlapped(t) ==
    [r \in Tasks |->
        IF r = t THEN NoArg
        ELSE IF pc[t] = "enc_ret" /\ res[t].ok /\ r \in PendingRotations
             THEN Blob(t)
             ELSE overlap[r]]

Return(t) ==
    /\ pc[t] \in {"rot_ret", "enc_ret", "dec_ret"}
    /\ saved' \in Keep(t)
    /\ pc' = [pc EXCEPT ![t] = "idle"]
    /\ op' = [op EXCEPT ![t] = "none"]
    /\ res' = [res EXCEPT ![t] = NoRes]
    /\ arg' = [arg EXCEPT ![t] = NoArg]
    /\ new_key' = [new_key EXCEPT ![t] = EmptyKey]
    /\ seen' = [seen EXCEPT ![t] = NoSeen]
    /\ pre_key' = [pre_key EXCEPT ![t] = EmptyKey]
    /\ overlap' = Overlapped(t)
    /\ UNCHANGED <<active_key, previous_keys, rng, queue, rotations>>
    /\ UNCHANGED seqvars

Next ==
    \E t \in Tasks :
        \/ CallRotate(t)
        \/ CallEncrypt(t)
        \/ CallDecrypt(t)
        \/ RotGenerate(t)
        \/ RotPush(t)
        \/ RotSet(t)
        \/ RotTrim(t)
        \/ EncBody(t)
        \/ DecBody(t)
        \/ Return(t)

Spec == Init /\ [][Next]_vars

\* A call that is past its .await runs to its return, and the lock is handed
\* to the head of the queue once it is free: the runtime polls every ready task.
Step(t) ==
    \/ RotGenerate(t)
    \/ RotPush(t)
    \/ RotSet(t)
    \/ RotTrim(t)
    \/ EncBody(t)
    \/ DecBody(t)
    \/ Return(t)

FairSpec == Spec /\ \A t \in Tasks : WF_vars(Step(t))

\* ---- properties ----------------------------------------------------------
Range(f) == {f[i] : i \in DOMAIN f}

\* the key the i-th successful rotation installed
KeyN(i) == IF i = 0 THEN EmptyKey ELSE [len |-> KEY_LEN, id |-> i]

Min(a, b) == IF a < b THEN a ELSE b

\* a decrypt call whose body has run, and the rotations that succeeded between
\* the encrypt call that made its blob and its own read of the KeyStore
Decrypted(t) == pc[t] = "dec_ret" /\ res[t].set /\ seen[t].set

Further(t) == seen[t].rots - arg[t].rots

\* C1. Rotation survivability: a blob made by encrypt is still decrypted to
\* its plaintext after r further successful rotations, 1 <= r <= RETENTION.
RotationSurvivability ==
    \A t \in Tasks :
        (Decrypted(t) /\ Further(t) \in 1..RETENTION) => res[t] = Ok(arg[t].pt)

RotationSurvivabilityWitness ==
    \E t \in Tasks :
        /\ Decrypted(t)
        /\ Further(t) = RETENTION
        /\ arg[t].pt # <<>>
        /\ res[t] = Ok(arg[t].pt)

\* C2. Eviction: once RETENTION + 1 further rotations have succeeded, decrypt
\* of the blob fails and returns no plaintext.
Eviction ==
    \A t \in Tasks :
        (Decrypted(t) /\ Further(t) >= RETENTION + 1) => res[t] = Err

EvictionWitness ==
    \E t \in Tasks :
        /\ Decrypted(t)
        /\ Further(t) = RETENTION + 1
        /\ res[t] = Err

\* C3. Round trip: decrypt(encrypt(p)) = p for every plaintext p while the key
\* that was active at encryption is the active key or is in previous_keys.
KeyRetained(t) ==
    \/ seen[t].active = KeyN(arg[t].key)
    \/ KeyN(arg[t].key) \in Range(seen[t].previous)

RoundTrip ==
    \A t \in Tasks :
        (Decrypted(t) /\ KeyRetained(t)) => res[t] = Ok(arg[t].pt)

RoundTripWitness ==
    \E t \in Tasks :
        /\ Decrypted(t)
        /\ KeyN(arg[t].key) \in Range(seen[t].previous)
        /\ arg[t].pt = <<>>
        /\ Len(arg[t].data) = TAG_LEN
        /\ res[t] = Ok(<<>>)

\* C4. Bounded history: whenever the lock is not write-held, previous_keys
\* holds at most RETENTION keys.
BoundedHistory == writers = {} => Len(previous_keys) <= RETENTION

BoundedHistoryWitness ==
    /\ writers = {}
    /\ rotations > RETENTION + 1
    /\ Len(previous_keys) = RETENTION

\* C5. Exact history size: after N > RETENTION successful rotations of a
\* fresh KeyStore, previous_keys holds exactly RETENTION keys.
ExactHistory ==
    (writers = {} /\ rotations > RETENTION) => Len(previous_keys) = RETENTION

ExactHistoryWitness ==
    /\ writers = {}
    /\ rotations = RETENTION + 1
    /\ Len(previous_keys) = RETENTION

\* C6. Oldest-first eviction: after n successful rotations the active key is
\* the one the n-th rotation generated and previous_keys holds exactly the
\* min(n - 1, RETENTION) keys retired last, so that no retired key is kept
\* while a newer retired key is gone.
Retired(n) == {KeyN(i) : i \in (n - Min(n - 1, RETENTION))..(n - 1)}

OldestFirst ==
    writers = {} =>
        /\ active_key = KeyN(rotations)
        /\ rotations = 0 => previous_keys = <<>>
        /\ rotations > 0 =>
              /\ Range(previous_keys) = Retired(rotations)
              /\ Len(previous_keys) = Min(rotations - 1, RETENTION)

OldestFirstWitness ==
    /\ writers = {}
    /\ rotations = RETENTION + 2
    /\ Range(previous_keys) = {KeyN(RETENTION), KeyN(RETENTION + 1)}
    /\ active_key = KeyN(RETENTION + 2)

\* C7. Rotation is atomic for readers: no encrypt or decrypt holds the read
\* lock while a rotation holds the write lock, and what a reader reads is the
\* KeyStore as a completed rotation left it, never a state in between (the
\* old key both active and retired, or RETENTION + 1 retired keys).
Whole(k) ==
    /\ k.active = KeyN(k.rots)
    /\ k.active \notin Range(k.previous)
    /\ Len(k.previous) <= RETENTION
    /\ k.rots > 0 => Range(k.previous) = Retired(k.rots)

RotationAtomic ==
    /\ ~(readers # {} /\ writers # {})
    /\ Cardinality(writers) <= 1
    /\ \A t \in Tasks : seen[t].set => Whole(seen[t])

RotationAtomicWitness ==
    \E r \in Tasks, t \in Tasks :
        /\ pc[r] = "rot_trim"
        /\ Len(previous_keys) = RETENTION + 1
        /\ pc[t] = "wait"
        /\ op[t] \in {"encrypt", "decrypt"}
        /\ Head(queue) = t

\* C8. An encrypt call concurrent with a rotate_keys call seals its blob
\* under one key, the key active before that rotation or the key it
\* installs, and the blob is decryptable once both calls have returned
\* (no other rotation having succeeded in between).
SealedUnderOneKey(t) ==
    /\ res[t].val = seal_in_place_append_tag(seen[t].active, arg[t].pt)
    /\ seen[t].active = KeyN(seen[t].rots)
    /\ decrypt(active_key, previous_keys, res[t].val) = Ok(arg[t].pt)

ConcurrentEncrypt ==
    /\ \A t \in Tasks :
          (pc[t] = "enc_ret" /\ res[t].ok) => SealedUnderOneKey(t)
    /\ \A r \in Tasks :
          (/\ pc[r] = "rot_ret"
           /\ res[r].ok
           /\ overlap[r] # NoArg
           /\ rotations - overlap[r].rots <= 1)
          => /\ KeyN(overlap[r].key) \in {pre_key[r], active_key}
             /\ decrypt(active_key, previous_keys, overlap[r].data)
                    = Ok(overlap[r].pt)

ConcurrentEncryptWitness ==
    \E r \in Tasks :
        /\ pc[r] = "rot_ret"
        /\ res[r].ok
        /\ overlap[r] # NoArg
        /\ rotations - overlap[r].rots = 1
        /\ KeyN(overlap[r].key) = pre_key[r]
        /\ active_key # pre_key[r]

\* C9. Deadlock freedom: under fair scheduling every call that asked for the
\* lock gets it, returns and releases it (no task stays in a call for ever),
\* and in no reachable state are all pending callers blocked.
Blocked(t) == pc[t] = "wait" /\ ~Granted(t, op[t] = "rotate")

AllBlocked ==
    /\ \E t \in Tasks : pc[t] # "idle"
    /\ \A t \in Tasks : pc[t] # "idle" => Blocked(t)

DeadlockFreedom ==
    /\ []~AllBlocked
    /\ \A t \in Tasks : []<>(pc[t] = "idle")

DeadlockFreedomWitness ==
    /\ \A t \in Tasks : pc[t] # "idle"
    /\ \E r \in Tasks : pc[r] \in WritePcs
    /\ Len(queue) = Cardinality(Tasks) - 1
    /\ \E t \in Tasks : pc[t] = "wait" /\ op[t] = "rotate"

\* C10, as claimed: every encrypt or decrypt reads a present active key and
\* at most RETENTION retired keys, also around the first rotation.
SelfConsistentFromCreation ==
    \A t \in Tasks :
        seen[t].set =>
            /\ ~is_empty(seen[t].active)
            /\ Len(seen[t].previous) <= RETENTION

\* C10, amended: every encrypt or decrypt reads at most RETENTION retired keys
\* and, once a rotation has succeeded, a present active key; before the first
\* successful rotation it reads the empty placeholder and no retired key.
SelfConsistent ==
    \A t \in Tasks :
        seen[t].set =>
            /\ Len(seen[t].previous) <= RETENTION
            /\ seen[t].rots > 0 => UnboundKeyNew(seen[t].active)
            /\ seen[t].rots = 0 =>
                  (is_empty(seen[t].active) /\ seen[t].previous = <<>>)

SelfConsistentWitness ==
    \E t \in Tasks, r \in Tasks :
        /\ seen[t].set
        /\ seen[t].rots = 1
        /\ UnboundKeyNew(seen[t].active)
        /\ pc[r] = "wait"
        /\ op[r] = "rotate"

\* ---- one caller, one call at a time: rotate_keys, encrypt, decrypt --------
\* The whole of rotate_keys under its write guard (lines 39-58).
RotateKeys ==
    /\ rng < MaxRotations
    /\ \/ /\ active_key' = generate_key(rng)
          /\ previous_keys' = Trim(PushCurrent(active_key, previous_keys))
          /\ rng' = rng + 1
          /\ rotations' = rotations + 1
          /\ last' = [NoCall EXCEPT !.op = "rotate", !.res = Ok(<<>>)]
       \/ /\ last' = [NoCall EXCEPT !.op = "rotate", !.res = Err]
          /\ UNCHANGED keyvars
    /\ UNCHANGED <<taskvars, saved, storevars, passvars, wsvars, appvars>>

\* The whole of encrypt under its read guard; the caller keeps the blob.
EncryptCall ==
    /\ \E data \in Plaintexts :
          LET r == encrypt(active_key, data) IN
          /\ last' = [NoCall EXCEPT !.op = "encrypt", !.data = data, !.res = r]
          /\ saved' = IF r.ok
                         THEN [data |-> r.val, pt |-> data, key |-> active_key.id,
                               rots |-> rotations, nonce |-> assume_unique_for_key]
                         ELSE saved
    /\ UNCHANGED <<keyvars, taskvars, storevars, passvars, wsvars, appvars>>

\* What a caller may hand to decrypt: the blob it kept, that blob with one
\* bit of one byte flipped, with its last byte cut off, or nothing at all.
FlipBit(x) == x + 1 - 2 * (x % 2)

Flip(blob, i) == [j \in 1..Len(blob) |-> IF j = i THEN FlipBit(blob[j]) ELSE blob[j]]

Inputs(blob) ==
    {[data |-> blob, mod |-> "none"],
     [data |-> SubSeq(blob, 1, Len(blob) - 1), mod |-> "cut"],
     [data |-> <<>>, mod |-> "empty"]}
    \cup {[data |-> Flip(blob, i), mod |-> "flip"] : i \in 1..Len(blob)}

\* The whole of decrypt under its read guard.
DecryptCall ==
    /\ saved # NoArg
    /\ \E in \in Inputs(saved.data) :
          last' = [NoCall EXCEPT
                      !.op = "decrypt", !.data = in.data, !.mod = in.mod,
                      !.res = decrypt(active_key, previous_keys, in.data)]
    /\ UNCHANGED <<keyvars, taskvars, saved, storevars, passvars, wsvars, appvars>>

\* What a caller that kept no blob may hand to decrypt: nothing, a blob
\* sealed by someone who holds the first key drawn, or a blob sealed with
\* the empty placeholder taken as a key.
OtherBlobs ==
    {<<>>}
    \cup {seal_in_place_append_tag(k, p) :
             k \in {EmptyKey, generate_key(0)}, p \in Plaintexts}

DecryptOther ==
    /\ saved = NoArg
    /\ \E data \in OtherBlobs :
          last' = [NoCall EXCEPT
                      !.op = "decrypt", !.data = data, !.mod = "other",
                      !.res = decrypt(active_key, previous_keys, data)]
    /\ UNCHANGED <<keyvars, taskvars, saved, storevars, passvars, wsvars, appvars>>

CipherNext == RotateKeys \/ EncryptCall \/ DecryptCall \/ DecryptOther

CipherSpec == Init /\ [][CipherNext]_vars

\* the keys decrypt tries: the active key and the retired ones
Candidates == {active_key} \cup Range(previous_keys)

\* the candidate keys under which some plaintext seals to exactly this input
Authenticating(data) ==
    {k \in Candidates :
        /\ UnboundKeyNew(k)
        /\ \E p \in Plaintexts : data = seal_in_place_append_tag(k, p)}

\* C12: decrypt returns a plaintext only if a candidate key authenticates the
\* input, and then the whole plaintext sealed under that key; if no candidate
\* authenticates, it returns the error and no byte of plaintext.
AuthenticatedOrNothing ==
    last.op = "decrypt" =>
        /\ last.res.ok =>
               \E k \in Authenticating(last.data) :
                   last.data = seal_in_place_append_tag(k, last.res.val)
        /\ Authenticating(last.data) = {} => last.res = Err

AuthenticatedOrNothingWitness ==
    /\ last.op = "decrypt"
    /\ last.res.ok
    /\ saved.key # active_key.id
    /\ Len(last.res.val) = MaxLen

\* C13: a blob with one bit of its ciphertext or of its tag flipped fails to
\* decrypt, under the active key and under every retired key, whatever the
\* KeyStore holds.
TamperDetected ==
    last.op = "decrypt" /\ last.mod = "flip" =>
        /\ last.res = Err
        /\ \A k \in Candidates : ~try_decrypt(last.data, k).ok

\* a flipped ciphertext bit, while the key of the blob is still a candidate
TamperDetectedWitness ==
    /\ last.op = "decrypt"
    /\ last.mod = "flip"
    /\ Len(saved.pt) > 0
    /\ last.data[1] # saved.data[1]
    /\ Len(previous_keys) = RETENTION
    /\ \E k \in Candidates : k.id = saved.key

\* an encrypt call whose body has run and produced a blob
Sealed(t) == pc[t] = "enc_ret" /\ res[t].ok

\* C11: no two encrypt calls made under the same key use the same nonce,
\* whether the two calls ran side by side or one after the other.
NonceUnique ==
    \A t \in Tasks :
        Sealed(t) =>
            /\ \A u \in Tasks \ {t} :
                   Sealed(u) /\ arg[u].key = arg[t].key
                       => arg[u].nonce # arg[t].nonce
            /\ saved # NoArg /\ saved.key = arg[t].key
                   => saved.nonce # arg[t].nonce

\* C14: the blob encrypt returns for an n-byte plaintext is the 12-byte nonce
\* followed by n bytes of ciphertext and the 16-byte tag, n + 28 bytes in all.
BlobLayout ==
    \A t \in Tasks :
        Sealed(t) =>
            /\ Len(res[t].val) = NONCE_LEN + Len(arg[t].pt) + TAG_LEN
            /\ SubSeq(res[t].val, 1, NONCE_LEN) = arg[t].nonce

\* ---- the credential store, as the settings window uses it ----------------
\* A token is a string; its characters are the bytes of the allow-list or one
\* character outside it, and it may be one character longer than allowed.
Chars == Bytes \cup {Cardinality(Bytes)}
Tokens == UNION {[1..n -> Chars] : n \in 0..(MaxLen + 1)}

\* InputValidator::validate_token: a length range and an allow-list
validate_token(value) ==
    /\ value # <<>>
    /\ Len(value) <= MaxLen
    /\ \A i \in 1..Len(value) : value[i] \in Bytes

\* CredentialStore: the value is sealed by the cipher and kept under the name;
\* each operation yields its result, the entries it leaves and whether it
\* went to the cipher (and so to the KeyStore).
credential_store_store(es, key, value) ==
    LET sealed == encrypt(active_key, value) IN
    IF sealed.ok
    THEN [ret |-> Done(<<>>), crypto |-> TRUE,
          entries |-> [es EXCEPT ![key] = [present |-> TRUE, data |-> sealed.val]]]
    ELSE [ret |-> Failed("encryption"), crypto |-> TRUE, entries |-> es]

credential_store_get(es, key) ==
    IF ~es[key].present
    THEN [ret |-> Failed("not_found"), crypto |-> FALSE, entries |-> es]
    ELSE LET opened == decrypt(active_key, previous_keys, es[key].data) IN
         [ret |-> IF opened.ok THEN Done(opened.val) ELSE Failed("decryption"),
          crypto |-> TRUE, entries |-> es]

credential_store_delete(es, key) ==
    [ret |-> Done(<<>>), crypto |-> FALSE, entries |-> [es EXCEPT ![key] = Absent]]

\* Variant: the value goes to the store without validate_token.
store_credential_unvalidated(es, key, value) == credential_store_store(es, key, value)

\* SettingsWindow::store_credential
store_credential(es, key, value) ==
    IF ~validate_token(value)
    THEN [ret |-> Failed("validation"), crypto |-> FALSE, entries |-> es]
    ELSE credential_store_store(es, key, value)

\* Variant: a credential that cannot be decrypted is reported as missing.
get_credential_or_missing(es, key) ==
    LET r == credential_store_get(es, key) IN
    IF r.ret.err = "decryption" THEN [r EXCEPT !.ret = Failed("not_found")] ELSE r

\* SettingsWindow::get_credential
get_credential(es, key) == credential_store_get(es, key)

\* Variant: deleting a name that has no entry is an error.
delete_credential_strict(es, key) ==
    IF es[key].present THEN credential_store_delete(es, key)
    ELSE [ret |-> Failed("not_found"), crypto |-> FALSE, entries |-> es]

\* SettingsWindow::delete_credential
delete_credential(es, key) == credential_store_delete(es, key)

Changed(es, after) == {n \in Names : after[n] # es[n]}

Called(o, key, out) ==
    [NoCall EXCEPT !.op = o, !.name = key, !.ret = out.ret, !.crypto = out.crypto,
                   !.changed = Changed(entries, out.entries),
                   !.had = entries[key].present,
                   !.again = (last.op = "delete" /\ last.name = key)]

StoreCredential(key, value) ==
    LET out == store_credential(entries, key, value) IN
    /\ entries' = out.entries
    /\ truth' = IF out.ret.ok
                   THEN [truth EXCEPT ![key] = [set |-> TRUE, val |-> value,
                                                rots |-> rotations]]
                   ELSE truth
    /\ last' = [Called("store", key, out) EXCEPT !.data = value]
    /\ UNCHANGED <<keyvars, taskvars, saved, passvars, wsvars, appvars>>

GetCredential(key) ==
    LET out == get_credential(entries, key) IN
    /\ entries' = out.entries
    /\ last' = Called("get", key, out)
    /\ UNCHANGED <<keyvars, taskvars, saved, truth, passvars, wsvars, appvars>>

DeleteCredential(key) ==
    LET out == delete_credential(entries, key) IN
    /\ entries' = out.entries
    /\ truth' = IF out.ret.ok THEN [truth EXCEPT ![key] = NoTruth] ELSE truth
    /\ last' = Called("delete", key, out)
    /\ UNCHANGED <<keyvars, taskvars, saved, passvars, wsvars, appvars>>

\* toggle_*_integration(enabled): switching an integration off deletes its
\* credential; a failure is logged and the command answers Ok either way.
ToggleIntegration(key, enabled) ==
    LET out == IF enabled
               THEN [ret |-> Done(<<>>), crypto |-> FALSE, entries |-> entries]
               ELSE delete_credential(entries, key) IN
    /\ entries' = out.entries
    /\ truth' = IF ~enabled /\ out.ret.ok THEN [truth EXCEPT ![key] = NoTruth]
                 ELSE truth
    /\ last' = [Called("toggle", key, out) EXCEPT !.ret = Done(<<>>)]
    /\ UNCHANGED <<keyvars, taskvars, saved, passvars, wsvars, appvars>>

StoreNext ==
    \/ RotateKeys
    \/ \E key \in Names :
          \/ \E value \in Tokens : StoreCredential(key, value)
          \/ GetCredential(key)
          \/ DeleteCredential(key)
          \/ \E enabled \in BOOLEAN : ToggleIntegration(key, enabled)

StoreSpec == Init /\ [][StoreNext]_vars

\* C15: store of an empty, too long or ill-charactered token fails with the
\* validation error, before any encryption and any KeyStore access, and leaves
\* every entry as it was.
FailFast ==
    last.op = "store" /\ ~validate_token(last.data) =>
        /\ last.ret = Failed("validation")
        /\ ~last.crypto
        /\ last.changed = {}

\* an ill-charactered token of allowed length, offered while the name holds a
\* value and a key is active
FailFastWitness ==
    /\ last.op = "store"
    /\ Len(last.data) = MaxLen
    /\ \E i \in 1..Len(last.data) : last.data[i] \notin Bytes
    /\ last.had
    /\ ~is_empty(active_key)

\* C24: a token is accepted only if its length is within the range and every
\* character is on the allow-list; the empty token, a token longer than the
\* range and a token with a character off the allow-list are all refused with
\* the validation error.
TokenFailsClosed ==
    last.op = "store" =>
        /\ last.ret.err # "validation" =>
               /\ Len(last.data) \in 1..MaxLen
               /\ \A i \in 1..Len(last.data) : last.data[i] \in Bytes
        /\ last.data = <<>> => last.ret = Failed("validation")
        /\ Len(last.data) > MaxLen => last.ret = Failed("validation")
        /\ (\E i \in 1..Len(last.data) : last.data[i] \notin Bytes) =>
               last.ret = Failed("validation")

\* a token of allow-listed characters, one character too long, was refused
\* after a token of full length had been accepted under the same name
TokenFailsClosedWitness ==
    /\ last.op = "store"
    /\ Len(last.data) = MaxLen + 1
    /\ \A i \in 1..Len(last.data) : last.data[i] \in Bytes
    /\ last.ret = Failed("validation")
    /\ truth[last.name].set
    /\ Len(truth[last.name].val) = MaxLen

\* C16: get returns the value of the last successful store of the name that
\* no delete followed, as long as no more than the retained number of
\* rotations came in between; a store changes no entry but its own.
LastStoreWins ==
    /\ \A n \in Names :
           /\ last.op = "get"
           /\ last.name = n
           /\ truth[n].set
           /\ rotations - truth[n].rots <= RETENTION
           => last.ret = Done(truth[n].val)
    /\ last.op = "store" => last.changed \subseteq {last.name}

\* a value read back after as many rotations as are retained, while the other
\* name holds a different value
LastStoreWinsWitness ==
    /\ last.op = "get"
    /\ last.ret.ok
    /\ rotations - truth[last.name].rots = RETENTION
    /\ \A n \in Names : truth[n].set
    /\ \E n \in Names : truth[n].val # truth[last.name].val

\* C17: delete succeeds whether or not the name has an entry, a second delete
\* in a row changes nothing, and get answers NotFound from a delete until the
\* next successful store.
DeleteIdempotent ==
    /\ last.op = "delete" =>
           /\ last.ret = Done(<<>>)
           /\ ~entries[last.name].present
           /\ last.changed \subseteq {last.name}
           /\ ~last.had => last.changed = {}
    /\ \A n \in Names :
           last.op = "get" /\ last.name = n /\ ~truth[n].set
               => last.ret = Failed("not_found")

\* the second of two deletes of one name in a row
DeleteIdempotentWitness ==
    /\ last.op = "delete"
    /\ last.again
    /\ ~last.had
    /\ \E n \in Names : entries[n].present

\* C18: once more rotations than are retained have followed the store, get
\* fails with the decryption error, not with NotFound and not with a value,
\* and the entry is still there.
AgedOut ==
    \A n \in Names :
        /\ last.op = "get"
        /\ last.name = n
        /\ truth[n].set
        /\ rotations - truth[n].rots >= RETENTION + 1
        => /\ last.ret = Failed("decryption")
           /\ entries[n].present
           /\ last.changed = {}

AgedOutWitness ==
    /\ last.op = "get"
    /\ truth[last.name].set
    /\ rotations - truth[last.name].rots = RETENTION + 1
    /\ last.ret.err = "decryption"

\* ---- hash_password and verify_password ----------------------------------
\* data_encoding::HEXLOWER
HexDigits ==
    <<"0", "1", "2", "3", "4", "5", "6", "7", "8", "9", "a", "b", "c", "d", "e", "f">>

HexChars == Range(HexDigits)

HexTable ==
    "0" :> 0 @@ "1" :> 1 @@ "2" :> 2 @@ "3" :> 3 @@ "4" :> 4 @@ "5" :> 5 @@
    "6" :> 6 @@ "7" :> 7 @@ "8" :> 8 @@ "9" :> 9 @@ "a" :> 10 @@ "b" :> 11 @@
    "c" :> 12 @@ "d" :> 13 @@ "e" :> 14 @@ "f" :> 15

HexVal(c) == HexTable[c]

\* a sequence given by a rule, written out element by element
Written(n, f) == SubSeq(f, 1, n)

hex_encode(bytes) ==
    Written(2 * Len(bytes),
            [i \in 1..(2 * Len(bytes)) |->
                LET b == bytes[(i + 1) \div 2] IN
                IF i % 2 = 1 THEN HexDigits[(b \div 16) + 1]
                ELSE HexDigits[(b % 16) + 1]])

hex_decode(text) ==
    IF \/ Len(text) % 2 # 0
       \/ \E i \in 1..Len(text) : text[i] \notin HexChars
    THEN Err
    ELSE Ok(Written(Len(text) \div 2,
                    [i \in 1..(Len(text) \div 2) |->
                        HexVal(text[2 * i - 1]) * 16 + HexVal(text[2 * i])]))

\* hash.split('$').collect()
RECURSIVE split(_)
split(text) ==
    LET at == {i \in 1..Len(text) : text[i] = "$"} IN
    IF at = {} THEN <<text>>
    ELSE LET i == CHOOSE j \in at : \A k \in at : j <= k IN
         <<SubSeq(text, 1, i - 1)>> \o split(SubSeq(text, i + 1, Len(text)))

\* the n-th salt drawn from SystemRandom differs from every earlier one
generate_salt(n) == [i \in 1..SALT_LEN |-> n + 1]

RECURSIVE Sum(_)
Sum(bytes) == IF bytes = <<>> THEN 0 ELSE bytes[1] + Sum(Tail(bytes))

\* PBKDF2-HMAC-SHA512 as an ideal function of (salt, password): 64 bytes that
\* spell out a number no other (salt, password) of the model yields
pbkdf2_derive(salt, password) ==
    LET d == Sum(salt) * Radix + Code(password) IN
    Written(SHA512_OUTPUT_LEN,
            [j \in 1..SHA512_OUTPUT_LEN |->
                IF j % 2 = 1 THEN d % 256 ELSE (d \div 256) % 256])

\* Variant: the derived hash is written first and the salt second.
hash_password_swapped(n, password) ==
    LET salt == generate_salt(n) IN
    hex_encode(pbkdf2_derive(salt, password)) \o <<"$">> \o hex_encode(salt)

hash_password(n, password) ==
    LET salt == generate_salt(n) IN
    hex_encode(salt) \o <<"$">> \o hex_encode(pbkdf2_derive(salt, password))

\* the places at which two slices of one length differ
Differing(a, b) == {i \in 1..Len(a) : a[i] # b[i]}

\* Variant: the slices are compared with ==, which stops at the first byte
\* that differs.
slices_equal(a, b) ==
    IF Len(a) # Len(b) THEN [ok |-> FALSE, steps |-> 0]
    ELSE LET diff == Differing(a, b) IN
         IF diff = {} THEN [ok |-> TRUE, steps |-> Len(a)]
         ELSE [ok |-> FALSE, steps |-> CHOOSE i \in diff : \A k \in diff : i <= k]

\* Variant: slices of unequal length are compared over the shorter length.
verify_slices_prefix(a, b) ==
    LET n == IF Len(a) < Len(b) THEN Len(a) ELSE Len(b) IN
    [ok |-> \A i \in 1..n : a[i] = b[i], steps |-> n]

\* ring::constant_time::verify_slices_are_equal: unequal lengths are refused at
\* once; otherwise every pair of bytes is visited and the differences are
\* accumulated, and the outcome is read off the accumulator at the end
verify_slices_are_equal(a, b) ==
    IF Len(a) # Len(b) THEN [ok |-> FALSE, steps |-> 0]
    ELSE [ok |-> Cardinality(Differing(a, b)) = 0, steps |-> Len(a)]

verify_password(password, hash) ==
    LET parts == split(hash) IN
    IF Len(parts) # 2 THEN [ret |-> Done(<<FALSE>>), steps |-> 0]
    ELSE LET salt == hex_decode(parts[1])
             hash_bytes == hex_decode(parts[2])
         IN  IF ~salt.ok \/ ~hash_bytes.ok THEN [ret |-> Failed("decode"), steps |-> 0]
             ELSE LET check_hash == pbkdf2_derive(salt.val, password)
                      eq == verify_slices_are_equal(hash_bytes.val, check_hash)
                  IN  [ret |-> Done(<<eq.ok>>), steps |-> eq.steps]

\* What a caller may hand to verify_password as the hash: the one it kept,
\* that one with a single character replaced, shortened by one or two
\* characters, with a third part, with an upper-case digit, or nothing.
NextDigit(c) == IF c \in HexChars THEN HexDigits[((HexVal(c) + 1) % 16) + 1] ELSE "0"

VerifyInputs(h) ==
    {[kind |-> "none", pos |-> 0], [kind |-> "extra", pos |-> 0],
     [kind |-> "upper", pos |-> 1], [kind |-> "empty", pos |-> 0]}
    \cup {[kind |-> "alter", pos |-> i] : i \in 1..Len(h)}
    \cup {[kind |-> "cut", pos |-> k] : k \in 1..2}

HashInput(h, in) ==
    CASE in.kind = "none" -> h
      [] in.kind = "alter" -> [h EXCEPT ![in.pos] = NextDigit(h[in.pos])]
      [] in.kind = "cut" -> SubSeq(h, 1, Len(h) - in.pos)
      [] in.kind = "extra" -> h \o <<"$", "0", "0">>
      [] in.kind = "upper" -> [h EXCEPT ![in.pos] = "A"]
      [] in.kind = "empty" -> <<>>

HashPassword ==
    /\ salts < MaxSalts
    /\ last = NoCall
    /\ \E password \in Plaintexts :
          \/ /\ pwhash' = [set |-> TRUE, pw |-> password,
                           hash |-> hash_password(salts, password),
                           rots |-> rotations]
             /\ salts' = salts + 1
             /\ last' = [NoCall EXCEPT !.op = "hash", !.data = password,
                                       !.ret = Done(<<>>)]
          \/ /\ last' = [NoCall EXCEPT !.op = "hash", !.data = password,
                                       !.ret = Failed("salt")]
             /\ UNCHANGED passvars
    /\ UNCHANGED <<keyvars, taskvars, saved, storevars, wsvars, appvars>>

VerifyPassword ==
    /\ pwhash.set
    /\ last = NoCall
    /\ \E password \in Plaintexts, in \in VerifyInputs(pwhash.hash) :
          LET out == verify_password(password, HashInput(pwhash.hash, in)) IN
          last' = [NoCall EXCEPT !.op = "verify", !.data = password, !.input = in,
                                 !.ret = out.ret, !.steps = out.steps]
    /\ UNCHANGED <<keyvars, taskvars, saved, storevars, passvars, wsvars, appvars>>

\* the caller has taken the answer of its last call
TakeAnswer ==
    /\ last # NoCall
    /\ last' = NoCall
    /\ UNCHANGED <<keyvars, taskvars, saved, storevars, passvars, wsvars, appvars>>

PasswordNext == RotateKeys \/ HashPassword \/ VerifyPassword \/ TakeAnswer

PasswordSpec == Init /\ [][PasswordNext]_vars

\* C19: verifying a password against the hash made of it answers true, and
\* verifying any other password against that hash answers false, whatever the
\* KeyStore holds and however many rotations came after the hashing.
PasswordVerification ==
    last.op = "verify" /\ last.input.kind = "none" =>
        last.ret = Done(<<last.data = pwhash.pw>>)

\* the right password, verified after the keys were rotated
PasswordVerificationWitness ==
    /\ last.op = "verify"
    /\ last.input.kind = "none"
    /\ last.data = pwhash.pw
    /\ last.ret = Done(<<TRUE>>)
    /\ rotations > pwhash.rots

\* the hash part of a serialized hash starts after the salt and the '$'
HashPartStart == 2 * SALT_LEN + 2

\* C20: the comparison of the stored hash with the derived one visits the same
\* number of bytes wherever the first differing byte lies, and when none
\* differs.
ConstantTime ==
    /\ last.op = "verify"
    /\ last.input.kind \in {"none", "alter"}
    /\ last.input.pos # HashPartStart - 1
    => last.steps = SHA512_OUTPUT_LEN

\* the two slices differ in their last byte only
ConstantTimeWitness ==
    /\ last.op = "verify"
    /\ last.input = [kind |-> "alter", pos |-> Len(pwhash.hash)]
    /\ last.data = pwhash.pw
    /\ last.ret = Done(<<FALSE>>)
    /\ last.steps = SHA512_OUTPUT_LEN

\* the hash string that the last verify_password call was given
LastHash == HashInput(pwhash.hash, last.input)

IsHex(text) == \A i \in 1..Len(text) : text[i] \in HexChars

\* C33: verify_password answers true for no malformed hash string: without
\* exactly two segments around '$' it answers false and compares nothing; with
\* a segment that is not lower-case hex it returns the error; with a hash
\* segment that decodes to other than 64 bytes it answers false.
MalformedHashRejected ==
    last.op = "verify" =>
        LET parts == split(LastHash) IN
        /\ Len(parts) # 2 => last.ret = Done(<<FALSE>>) /\ last.steps = 0
        /\ Len(parts) = 2 /\ (~IsHex(parts[1]) \/ ~IsHex(parts[2])) =>
               last.ret = Failed("decode")
        /\ /\ Len(parts) = 2
           /\ hex_decode(parts[1]).ok
           /\ hex_decode(parts[2]).ok
           /\ Len(hex_decode(parts[2]).val) # SHA512_OUTPUT_LEN
           => last.ret = Done(<<FALSE>>)
        /\ last.input.kind \in {"extra", "upper", "empty", "cut"} =>
               last.ret # Done(<<TRUE>>)

\* the right password against its hash cut short by one byte
MalformedHashRejectedWitness ==
    /\ last.op = "verify"
    /\ last.input = [kind |-> "cut", pos |-> 2]
    /\ last.data = pwhash.pw
    /\ Len(hex_decode(split(LastHash)[2]).val) = SHA512_OUTPUT_LEN - 1
    /\ last.ret = Done(<<FALSE>>)

\* ---- the KeyStore: order, states, failed rotation, readers ----------------
\* C27: decrypt walks the keys from the newest to the oldest: the active key,
\* then the key retired last, then the older retired keys; previous_keys is
\* most-recent first, so the key a rotation retires is previous_keys[0].
TrialOrder ==
    LET keys == <<active_key>> \o previous_keys
    IN  \A i \in 1..(Len(keys) - 1) : keys[i].id > keys[i + 1].id

\* C28: the store starts Empty (no active key, no history); the first
\* successful rotation makes it Active with an empty history, the placeholder
\* is never retired; from then on the active key is never empty, no retired
\* key is empty, and rotate_keys can be called whatever the store holds.
KeyStoreStates ==
    /\ rotations = 0 => active_key = EmptyKey /\ previous_keys = <<>>
    /\ rotations = 1 => previous_keys = <<>>
    /\ rotations >= 1 => ~is_empty(active_key)
    /\ \A i \in DOMAIN previous_keys : ~is_empty(previous_keys[i])
    /\ rng < MaxRotations => ENABLED RotateKeys

\* the store is Active after a third rotation, with two retired keys
KeyStoreStatesWitness ==
    /\ rotations = 3
    /\ last.op = "rotate"
    /\ last.res.ok
    /\ Len(previous_keys) = RETENTION

\* C29: the step of rotate_keys in which the random source fails goes straight
\* to the return with the error, draws no second key, and leaves active_key
\* and previous_keys as they were, so a blob that decrypted before decrypts
\* after; the return that follows drops the write guard and changes no key.
FailedRotationStep(t) ==
    pc[t] = "wait" /\ pc'[t] = "rot_ret" =>
        /\ res'[t] = Err
        /\ active_key' = active_key
        /\ previous_keys' = previous_keys
        /\ rng' = rng
        /\ rotations' = rotations
        /\ saved # NoArg /\ decrypt(active_key, previous_keys, saved.data).ok =>
               decrypt(active_key', previous_keys', saved.data).ok

FailedRotationReturn(t) ==
    pc[t] = "rot_ret" /\ res[t] = Err /\ pc'[t] # pc[t] =>
        /\ pc'[t] = "idle"
        /\ active_key' = active_key
        /\ previous_keys' = previous_keys

FailedRotation ==
    [][\A t \in Tasks : FailedRotationStep(t) /\ FailedRotationReturn(t)]_vars

\* a rotation has failed while a kept blob decrypts under a retired key
FailedRotationWitness ==
    \E t \in Tasks :
        /\ pc[t] = "rot_ret"
        /\ res[t] = Err
        /\ saved # NoArg
        /\ saved.key # active_key.id
        /\ decrypt(active_key, previous_keys, saved.data).ok

\* C30: a step of encrypt or decrypt, successful or not, leaves active_key
\* and previous_keys as they are; a step that changes either of them is a
\* step of rotate_keys past its key generation.
ReaderStep(t) ==
    op[t] \in {"encrypt", "decrypt"} /\ pc'[t] # pc[t] =>
        active_key' = active_key /\ previous_keys' = previous_keys

OnlyRotationWrites ==
    [][/\ \A t \in Tasks : ReaderStep(t)
       /\ active_key' # active_key \/ previous_keys' # previous_keys =>
              \E t \in Tasks :
                  /\ op[t] = "rotate"
                  /\ pc[t] \in {"rot_push", "rot_set", "rot_trim"}]_vars

\* a decrypt has failed while retired keys are held, and an encrypt succeeded
OnlyRotationWritesWitness ==
    \E t, u \in Tasks :
        /\ pc[t] = "dec_ret"
        /\ ~res[t].ok
        /\ Len(previous_keys) = RETENTION
        /\ pc[u] = "enc_ret"
        /\ res[u].ok

\* C32: while no rotation has succeeded, encrypt returns the error and no
\* blob, for every plaintext, and decrypt returns the error for every input,
\* a blob sealed with the empty placeholder as key included; the placeholder
\* is refused as a key.
EmptyStateErrors ==
    rotations = 0 =>
        /\ is_empty(active_key)
        /\ ~UnboundKeyNew(active_key)
        /\ \A p \in Plaintexts : encrypt(active_key, p) = Err
        /\ last.op = "encrypt" => last.res = Err /\ saved = NoArg
        /\ last.op = "decrypt" => last.res = Err

\* a blob sealed with the placeholder as key was refused in the Empty state
EmptyStateErrorsWitness ==
    /\ rotations = 0
    /\ last.op = "decrypt"
    /\ last.res = Err
    /\ \E p \in Plaintexts :
           Len(p) = MaxLen /\ last.data = seal_in_place_append_tag(EmptyKey, p)

\* the tasks that asked for the lock before t and still wait for it
Ahead(t) ==
    {u \in Tasks : \E i, j \in 1..Len(queue) :
                       i < j /\ queue[i] = u /\ queue[j] = t}

Reading(t) == pc[t] = "wait" /\ op[t] \in {"encrypt", "decrypt"}

\* a rotation holds the write lock, or is the first waiter and is granted it
WriteHeld ==
    \/ writers # {}
    \/ /\ queue # <<>>
       /\ op[Head(queue)] = "rotate"
       /\ Granted(Head(queue), TRUE)

Messages == UNION {[1..n -> {"a", "<", ";"}] : n \in 0..MaxLen}

\* MessageSanitizer::sanitize_html: every markup metacharacter becomes its
\* character entity.
Escape(c) ==
    CASE c = "<" -> <<"&", "l", "t", ";">>
      [] c = ">" -> <<"&", "g", "t", ";">>
      [] c = "&" -> <<"&", "a", "m", "p", ";">>
      [] OTHER -> <<c>>

RECURSIVE sanitize_html(_)
sanitize_html(text) ==
    IF text = <<>> THEN <<>>
    ELSE Escape(Head(text)) \o sanitize_html(Tail(text))

\* MessageSanitizer::sanitize_command: the separator, the pipe, the backtick
\* (written out, as one character) and the redirections are refused; a text
\* without them is returned as it is.
Disallowed == {";", "|", "backtick", "<", ">"}

sanitize_command(text) ==
    IF \E i \in 1..Len(text) : text[i] \in Disallowed
    THEN Failed("security")
    ELSE Done(text)

\* Variant: the refused characters are cut out and the rest is returned.
sanitize_message_stripping(message) ==
    Done(SelectSeq(sanitize_html(message), LAMBDA c : c \notin Disallowed))

\* WebSocketManager::sanitize_message
sanitize_message(message) == sanitize_command(sanitize_html(message))

\* What the socket yields: a text frame or a frame of another kind.
Frames ==
    {[kind |-> "text", text |-> m] : m \in Messages}
    \cup {[kind |-> "binary", text |-> <<>>]}

\* Variant: the text of the frame is forwarded as it came.
on_message_raw(sent, msg) ==
    IF msg.kind = "text"
    THEN [sent |-> Append(sent, msg.text), warned |-> 0,
          res |-> sanitize_message(msg.text)]
    ELSE [sent |-> sent, warned |-> 0, res |-> NoRet]

\* The body of the read loop for Ok(msg): what is on the channel afterwards,
\* the warnings logged, and the result of sanitize_message.
on_message(sent, msg) ==
    IF msg.kind = "text"
    THEN LET r == sanitize_message(msg.text) IN
         IF r.ok THEN [sent |-> Append(sent, r.val), warned |-> 0, res |-> r]
         ELSE [sent |-> sent, warned |-> 1, res |-> r]
    ELSE [sent |-> sent, warned |-> 0, res |-> NoRet]

\* A server URL is its parts: an absolute URL scheme://host[path], the text
\* javascript:alert(1), which has a scheme and no authority, or the text
\* not-a-url, which has no scheme.
ServerUrls ==
    [kind : {"absolute"},
     scheme : {"http", "https", "ws", "wss", "ftp"},
     host : {"localhost", "127.0.0.1", "example.com", "localhost.example.com"},
     path : {"", "/", "/localhost"}]
    \cup {[kind |-> "opaque", scheme |-> "javascript", host |-> "",
           path |-> "alert(1)"],
          [kind |-> "relative", scheme |-> "", host |-> "", path |-> "not-a-url"]}

\* InputValidator::validate_url
validate_url(url) ==
    /\ url.kind = "absolute"
    /\ url.scheme \in {"http", "https", "ws", "wss"}

\* str::contains over the text of the URL: the needle is found wherever a
\* part of the text holds it.
contains(url, needle) ==
    CASE needle = "localhost" ->
             \/ url.host \in {"localhost", "localhost.example.com"}
             \/ url.path = "/localhost"
      [] needle = "127.0.0.1" -> url.host = "127.0.0.1"
      [] OTHER -> FALSE

trim_end_matches(url) ==
    IF url.kind = "absolute" /\ url.path = "/" THEN [url EXCEPT !.path = ""]
    ELSE url

\* Url::parse of scheme://{server_url}/ws: the authority runs to the first
\* slash of the text after scheme://.  For an absolute server URL that is
\* http: and the like: the host is the scheme word of the server URL, the port
\* is empty, and the rest of the server URL is the path.  For
\* javascript:alert(1) the port is not a number; not-a-url is a host.
UrlParse(scheme, rest) ==
    CASE rest.kind = "absolute" ->
             Done([scheme |-> scheme, host |-> rest.scheme, path |-> rest])
      [] rest.kind = "opaque" -> Failed("parse")
      [] OTHER -> Done([scheme |-> scheme, host |-> rest.path, path |-> NoUrl])

starts_with(scheme, prefix) ==
    prefix = "ws" /\ scheme \in {"ws", "wss"}

\* connect up to connect_async, with one step left out or put in.
connect_ws_url_from(url, validated) ==
    IF validated /\ ~validate_url(url) THEN Failed("url")
    ELSE LET text == IF contains(url, "localhost") \/ contains(url, "127.0.0.1")
                     THEN UrlParse("ws", trim_end_matches(url))
                     ELSE UrlParse("wss", trim_end_matches(url))
         IN  IF ~text.ok THEN text
             ELSE IF ~starts_with(text.val.scheme, "ws") THEN Failed("protocol")
             ELSE text

\* Variant: the server URL is used without validate_url.
connect_ws_url_unvalidated(url) == connect_ws_url_from(url, FALSE)

\* connect, lines 31-49: the URL handed to connect_async, or the error
connect_ws_url(url) == connect_ws_url_from(url, TRUE)

\* the status of the response that connect_async hands back with Ok
Statuses == {101, 200, 404}

is_success(status) == status \in 200..299

Connect(url) ==
    /\ ws_pc = "idle"
    /\ server_url' = url
    /\ LET r == connect_ws_url(url) IN
       IF r.ok
       THEN /\ ws_url' = r.val
            /\ ws_pc' = "connecting"
            /\ UNCHANGED ws_res
       ELSE /\ ws_res' = r
            /\ ws_pc' = "returned"
            /\ UNCHANGED ws_url
    /\ UNCHANGED <<connected, stream, inbox, event_sender, warnings, sanitized>>
    /\ UNCHANGED <<response, observed>>
    /\ UNCHANGED <<cryptvars, appvars>>

\* connect_async(ws_url).await gives Err(e)
ConnectFailed ==
    /\ ws_pc = "connecting"
    /\ ws_res' = Failed("connect")
    /\ ws_pc' = "returned"
    /\ UNCHANGED <<server_url, ws_url, connected, stream, inbox, event_sender,
                   warnings, sanitized>>
    /\ UNCHANGED <<response, observed>>
    /\ UNCHANGED <<cryptvars, appvars>>

\* connect_async(ws_url).await gives Ok((ws_stream, response))
Handshake(status) ==
    /\ ws_pc = "connecting"
    /\ IF ~is_success(status)
       THEN /\ ws_res' = Failed("status")
            /\ ws_pc' = "returned"
            /\ UNCHANGED stream
       ELSE /\ stream' = "open"
            /\ ws_pc' = "connected"
            /\ UNCHANGED ws_res
    /\ UNCHANGED <<server_url, ws_url, connected, inbox, event_sender, warnings,
                   sanitized>>
    /\ response' = status
    /\ UNCHANGED observed
    /\ UNCHANGED <<cryptvars, appvars>>

\* let mut connected = self.connected.lock().await; *connected = true;
SetConnected ==
    /\ ws_pc = "connected"
    /\ connected' = TRUE
    /\ ws_pc' = "reading"
    /\ UNCHANGED <<server_url, ws_url, stream, inbox, event_sender, warnings,
                   sanitized, ws_res>>
    /\ UNCHANGED <<response, observed>>
    /\ UNCHANGED <<cryptvars, appvars>>

\* read.next().await gives Some(Ok(msg))
ReadFrame(msg) ==
    /\ ws_pc = "reading"
    /\ Len(inbox) < MaxFrames
    /\ inbox' = Append(inbox, msg)
    /\ LET out == on_message(event_sender, msg) IN
       /\ event_sender' = out.sent
       /\ warnings' = warnings + out.warned
       /\ sanitized' = out.res
    /\ UNCHANGED <<ws_pc, server_url, ws_url, connected, stream, ws_res>>
    /\ UNCHANGED <<response, observed>>
    /\ UNCHANGED <<cryptvars, appvars>>

\* Variant: a stream error returns from connect at once, as a ? would.
ReadStopReturning(how) ==
    /\ ws_pc = "reading"
    /\ stream' = how
    /\ IF how = "error"
       THEN ws_pc' = "returned" /\ ws_res' = Failed("stream")
       ELSE ws_pc' = "closing" /\ UNCHANGED ws_res
    /\ UNCHANGED <<server_url, ws_url, connected, inbox, event_sender, warnings,
                   sanitized, response, observed>>
    /\ UNCHANGED <<cryptvars, appvars>>

\* read.next().await gives Some(Err(e)), and the loop breaks, or None
ReadStop(how) ==
    /\ ws_pc = "reading"
    /\ stream' = how
    /\ ws_pc' = "closing"
    /\ UNCHANGED <<server_url, ws_url, connected, inbox, event_sender, warnings,
                   sanitized, ws_res>>
    /\ UNCHANGED <<response, observed>>
    /\ UNCHANGED <<cryptvars, appvars>>

\* let mut connected = self.connected.lock().await; *connected = false; Ok(())
Disconnect ==
    /\ ws_pc = "closing"
    /\ connected' = FALSE
    /\ ws_res' = Done(<<>>)
    /\ ws_pc' = "returned"
    /\ UNCHANGED <<server_url, ws_url, stream, inbox, event_sender, warnings,
                   sanitized>>
    /\ UNCHANGED <<response, observed>>
    /\ UNCHANGED <<cryptvars, appvars>>

\* The caller has the result; the manager can be asked to connect again.
ConnectReturn ==
    /\ ws_pc = "returned"
    /\ ws_pc' = "idle"
    /\ server_url' = NoUrl
    /\ ws_url' = NoWsUrl
    /\ stream' = "none"
    /\ sanitized' = NoRet
    /\ ws_res' = NoRet
    /\ UNCHANGED <<connected, inbox, event_sender, warnings>>
    /\ response' = 0
    /\ UNCHANGED observed
    /\ UNCHANGED <<cryptvars, appvars>>

\* is_connected(): the flag is read under its mutex
IsConnected ==
    /\ observed' = connected
    /\ UNCHANGED <<ws_pc, server_url, ws_url, connected, stream, inbox,
                   event_sender, warnings, sanitized, ws_res, response>>
    /\ UNCHANGED <<cryptvars, appvars>>

WsNext ==
    \/ \E url \in ServerUrls : Connect(url)
    \/ ConnectFailed
    \/ \E status \in Statuses : Handshake(status)
    \/ SetConnected
    \/ \E msg \in Frames : ReadFrame(msg)
    \/ \E how \in {"error", "ended"} : ReadStop(how)
    \/ Disconnect
    \/ ConnectReturn
    \/ IsConnected

WsSpec == Init /\ [][WsNext]_vars

\* the text of the frame read last
LastText == inbox[Len(inbox)].text

HasMarkup(text) == \E i \in 1..Len(text) : text[i] \in {"<", ">"}

HasMetacharacter(text) == \E i \in 1..Len(text) : text[i] \in {";", "|", "backtick"}

\* C21: sanitize_message returns the escaped form of every message that has
\* markup and no shell metacharacter, and fails for every message that has a
\* shell metacharacter.
MarkupAccepted ==
    sanitized # NoRet =>
        /\ HasMarkup(LastText) /\ ~HasMetacharacter(LastText) =>
               sanitized = Done(sanitize_html(LastText))
        /\ HasMetacharacter(LastText) => ~sanitized.ok

\* the frames that pass sanitize_message, sanitized, in the order they came
RECURSIVE Forwarded(_)
Forwarded(frames) ==
    IF frames = <<>> THEN <<>>
    ELSE LET r == sanitize_message(Head(frames).text) IN
         (IF Head(frames).kind = "text" /\ r.ok THEN <<r.val>> ELSE <<>>)
             \o Forwarded(Tail(frames))

Rejected(frames) ==
    {i \in 1..Len(frames) :
        frames[i].kind = "text" /\ ~sanitize_message(frames[i].text).ok}

\* C22: the messages on the channel are the sanitized forms of the text
\* frames that passed sanitize_message, in order and nothing else; a frame
\* that failed is logged and not sent; the loop is left only when the stream
\* fails or ends, never because a frame was refused.
OnlySanitizedDelivered ==
    /\ event_sender = Forwarded(inbox)
    /\ warnings = Cardinality(Rejected(inbox))
    /\ ws_pc = "closing" => stream \in {"error", "ended"}
    /\ ws_pc = "reading" => stream = "open"

\* a frame was refused and the frame after it was delivered
OnlySanitizedDeliveredWitness ==
    /\ Len(inbox) = 2
    /\ 1 \in Rejected(inbox)
    /\ inbox[2].kind = "text"
    /\ Len(inbox[2].text) = MaxLen
    /\ event_sender = <<sanitize_html(inbox[2].text)>>

\* C23: sanitize_command gives back the very text it was given, here the
\* escaped message, or the error; it never gives back a shortened or
\* otherwise altered text.
NoStripping ==
    sanitized # NoRet =>
        \/ sanitized = Failed("security")
        \/ sanitized = Done(sanitize_html(LastText))

\* both outcomes have been seen: a refused frame, then an accepted one
NoStrippingWitness ==
    /\ sanitized.ok
    /\ Len(sanitized.val) = MaxLen
    /\ warnings > 0

GoodScheme(url) ==
    url.kind = "absolute" /\ url.scheme \in {"http", "https", "ws", "wss"}

\* C25: connect goes on to connect_async only for an absolute URL whose
\* scheme is http, https, ws or wss; for any other text it returns the error
\* of validate_url, with no URL built, no stream opened and connected false.
UrlFailsClosed ==
    server_url # NoUrl =>
        /\ ~GoodScheme(server_url) =>
               /\ ws_pc = "returned"
               /\ ws_res = Failed("url")
               /\ ws_url = NoWsUrl
               /\ stream = "none"
               /\ ~connected
        /\ ws_res.err # "url" => GoodScheme(server_url)

\* both texts of the test and an absolute URL of another scheme are refused
UrlFailsClosedWitness ==
    /\ ws_pc = "returned"
    /\ ws_res = Failed("url")
    /\ server_url.scheme = "javascript"
    /\ inbox # <<>>

\* C26: the URL handed to connect_async has the scheme ws only if the host of
\* the server URL is localhost or 127.0.0.1; for any other host it is wss.
WssEnforced ==
    ws_url # NoWsUrl =>
        /\ ws_url.scheme = "ws" => server_url.host \in {"localhost", "127.0.0.1"}
        /\ server_url.host \notin {"localhost", "127.0.0.1"} =>
               ws_url.scheme = "wss"

\* C34: once the server has answered the handshake with 101, connect sets
\* connected, reads frames until the stream ends or fails, and returns Ok;
\* it returns an error without having read only for a URL it refuses or a
\* handshake that was refused.
AcceptedHandshakeConnects ==
    /\ response = 101 =>
           \/ ws_pc \in {"connected", "reading", "closing"}
           \/ ws_pc = "returned" /\ ws_res = Done(<<>>)
    /\ ws_pc = "returned" /\ ~ws_res.ok =>
           \/ ws_res.err \in {"url", "parse", "protocol", "connect"}
           \/ ws_res.err = "status" /\ response # 101

\* C35: is_connected() answers true only after connected was set on a
\* handshake and before the read loop of that call was left and the flag
\* cleared; before the handshake and whenever connect has returned, with Ok
\* or with an error, the flag is false.
FlagWithinLoop ==
    /\ connected => ws_pc \in {"reading", "closing"} /\ stream # "none"
    /\ ws_pc \in {"idle", "connecting", "connected", "returned"} => ~connected

FlagLifecycle ==
    /\ []FlagWithinLoop
    /\ [][observed' # observed /\ observed' => ws_pc \in {"reading", "closing"}]_vars

\* connect has returned Ok after a stream error broke the loop, is_connected()
\* having answered true during the loop
FlagLifecycleWitness ==
    /\ ws_pc = "returned"
    /\ ws_res = Done(<<>>)
    /\ stream = "error"
    /\ observed
    /\ ~connected
    /\ inbox # <<>>

\* ---- the log buffer (lib.rs) ---------------------------------------------
\* An entry is the number of the add_log_entry call that made it, which
\* stands for its timestamp, level and message.  LOG_BUFFER.lock() fails only
\* once a thread has panicked while holding the lock; neither function can
\* panic while it holds it, so the lock is taken to succeed.

\* Variant: add_log_entry drops the oldest entry one call late.
add_log_entry_late(buffer, entry) ==
    LET pushed == Append(buffer, entry)
    IN  IF Len(pushed) > MAX_LOG_ENTRIES + 1 THEN Tail(pushed) ELSE pushed

\* buffer.push(entry); if buffer.len() > 200 { buffer.remove(0); }
add_log_entry(buffer, entry) ==
    LET pushed == Append(buffer, entry)
    IN  IF Len(pushed) > MAX_LOG_ENTRIES THEN Tail(pushed) ELSE pushed

\* get_backend_logs_internal: the clone of the buffer, cut to its last
\* limit entries when a limit is given
get_backend_logs_internal(buffer, limit) ==
    IF limit.some
    THEN LET start == IF Len(buffer) > limit.val
                      THEN Len(buffer) - limit.val ELSE 0
         IN  SubSeq(buffer, start + 1, Len(buffer))
    ELSE buffer

\* a handler calls add_log_entry
Logged ==
    /\ log_count < MaxLogs
    /\ log_count' = log_count + 1
    /\ LOG_BUFFER' = add_log_entry(LOG_BUFFER, log_count + 1)

\* ---- SessionMonitor (sessions/monitor.rs) --------------------------------
\* The handlers write their log lines with add_log_entry.
\* What the server reports for a session: its status and last activity as
\* one value, or that it has none.
Reports == [SessionIds -> {"absent", "running", "exited"}]

\* the tasks that have not left their loop
Alive == {i \in 1..Len(pollers) : pollers[i] # "stopped"}

\* start_monitoring: no .await between the test of the flag and the spawn
StartMonitoring ==
    /\ Len(pollers) < MaxSpawns
    /\ mon_res' = [ret |-> IF monitoring THEN Failed("running") ELSE Done(<<>>),
                   had |-> monitoring]
    /\ monitoring' = TRUE
    /\ pollers' = IF monitoring THEN pollers ELSE Append(pollers, "check")
    /\ IF monitoring THEN UNCHANGED <<LOG_BUFFER, log_count>> ELSE Logged
    /\ UNCHANGED <<sessions, events, log_res>>
    /\ UNCHANGED <<cryptvars, wsvars, srvvars>>

\* stop_monitoring
StopMonitoring ==
    /\ monitoring' = FALSE
    /\ UNCHANGED <<pollers, sessions, events, mon_res>>
    /\ UNCHANGED <<cryptvars, wsvars, srvvars, logvars>>

\* the spawned task at the top of its loop: if !*monitoring_flag { break; }
PollCheck(i) ==
    /\ i \in DOMAIN pollers
    /\ pollers[i] = "check"
    /\ pollers' = [pollers EXCEPT ![i] = IF monitoring THEN "tick" ELSE "stopped"]
    /\ IF monitoring THEN UNCHANGED <<LOG_BUFFER, log_count>> ELSE Logged
    /\ UNCHANGED <<monitoring, sessions, events, mon_res, log_res>>
    /\ UNCHANGED <<cryptvars, wsvars, srvvars>>

\* the events of one poll: created, updated, deleted
session_events(local, current) ==
    {[session_id |-> id, event_type |-> "created"] :
        id \in {x \in SessionIds : local[x] = "absent" /\ current[x] # "absent"}}
    \cup {[session_id |-> id, event_type |-> "updated"] :
        id \in {x \in SessionIds : /\ local[x] # "absent"
                                    /\ current[x] # "absent"
                                    /\ local[x] # current[x]}}
    \cup {[session_id |-> id, event_type |-> "deleted"] :
        id \in {x \in SessionIds : local[x] # "absent" /\ current[x] = "absent"}}

\* interval.tick().await and fetch_sessions_from_server(..).await: Ok
PollFetch(i, current) ==
    /\ i \in DOMAIN pollers
    /\ pollers[i] = "tick"
    /\ events' = session_events(sessions, current)
    /\ sessions' = current
    /\ pollers' = [pollers EXCEPT ![i] = "check"]
    /\ UNCHANGED <<monitoring, mon_res>>
    /\ UNCHANGED <<cryptvars, wsvars, srvvars, logvars>>

\* interval.tick().await and fetch_sessions_from_server(..).await: Err
PollFailed(i) ==
    /\ i \in DOMAIN pollers
    /\ pollers[i] = "tick"
    /\ pollers' = [pollers EXCEPT ![i] = "check"]
    /\ events' = {}
    /\ Logged
    /\ UNCHANGED <<monitoring, sessions, mon_res, log_res>>
    /\ UNCHANGED <<cryptvars, wsvars, srvvars>>

MonitorNext ==
    \/ StartMonitoring
    \/ StopMonitoring
    \/ \E i \in 1..MaxSpawns :
          \/ PollCheck(i)
          \/ \E current \in Reports : PollFetch(i, current)
          \/ PollFailed(i)

MonitorSpec == Init /\ [][MonitorNext]_vars

\* C36: at most one polling task of a monitor is alive at any time, the
\* task a stop_monitoring call found alive ends whatever is called next, and
\* start_monitoring fails as already running exactly when it finds the flag
\* set.
AtMostOneLoop ==
    /\ Cardinality(Alive) <= 1
    /\ mon_res.ret = Failed("running") <=> mon_res.had

\* ---- ServerManager (server/manager.rs) and the calls of server/mod.rs -----
\* A child is its pid: the i-th successful spawn yields pid i.  Dropping a
\* Child neither kills nor reaps it, so a child leaves running only when a
\* kill succeeded.  start holds the guard of process from its first line to
\* its return, the health checks included, so no other call of the same
\* manager runs in between and start is one step.  The outcome of each
\* environment call is an input: whether the binary exists, whether spawn
\* succeeds, the first health check attempt the server answers (ready_at,
\* beyond MAX_HEALTH_CHECK_ATTEMPTS if it never does in time), whether kill
\* succeeds.

\* wait_for_server_ready: up to MAX_HEALTH_CHECK_ATTEMPTS attempts, Ok at the
\* first one that finds the port open and the server healthy
wait_for_server_ready(ready_at) ==
    LET hits == {attempt \in 1..MAX_HEALTH_CHECK_ATTEMPTS : attempt >= ready_at}
    IN  IF hits # {}
        THEN [ret |-> Done(<<>>),
              attempts |-> CHOOSE a \in hits : \A b \in hits : a <= b]
        ELSE [ret |-> Failed("health"), attempts |-> MAX_HEALTH_CHECK_ATTEMPTS]

\* what start does once it knows that no child is held
start_body(how, ready_at) ==
    IF how = "no_binary"
    THEN /\ srv_res' = [op |-> "start", ret |-> Failed("binary"),
                        had |-> FALSE, spawned |-> FALSE, attempts |-> 0]
         /\ UNCHANGED <<process, children, running>>
    ELSE IF how = "spawn_failed"
    THEN /\ srv_res' = [op |-> "start", ret |-> Failed("spawn"),
                        had |-> FALSE, spawned |-> FALSE, attempts |-> 0]
         /\ UNCHANGED <<process, children, running>>
    ELSE LET pid == children + 1
             ready == wait_for_server_ready(ready_at)
         IN  /\ children < MaxChildren
             /\ children' = pid
             /\ running' = running \cup {pid}
             /\ process' = pid
             /\ srv_res' = [op |-> "start",
                            ret |-> IF ready.ret.ok THEN Done(pid) ELSE ready.ret,
                            had |-> process # NoChild, spawned |-> TRUE,
                            attempts |-> ready.attempts]

\* Variant: start spawns whether or not a child is held.
StartOverwriting(how, ready_at) ==
    /\ start_body(how, ready_at)
    /\ UNCHANGED server_process
    /\ UNCHANGED <<cryptvars, wsvars, monvars, logvars>>

\* ServerManager::start
Start(how, ready_at) ==
    /\ IF process # NoChild
       THEN /\ srv_res' = [op |-> "start", ret |-> Failed("running"),
                           had |-> TRUE, spawned |-> FALSE, attempts |-> 0]
            /\ UNCHANGED <<process, children, running>>
       ELSE start_body(how, ready_at)
    /\ UNCHANGED server_process
    /\ UNCHANGED <<cryptvars, wsvars, monvars, logvars>>

\* ServerManager::stop
Stop(killed) ==
    /\ process' = NoChild
    /\ running' = IF killed THEN running \ {process} ELSE running
    /\ srv_res' = [op |-> "stop",
                   ret |-> IF process = NoChild \/ killed
                           THEN Done(<<>>) ELSE Failed("kill"),
                   had |-> process # NoChild, spawned |-> FALSE,
                   attempts |-> 0]
    /\ UNCHANGED <<server_process, children>>
    /\ UNCHANGED <<cryptvars, wsvars, monvars, logvars>>

\* ServerManager::get_pid
GetPid ==
    /\ srv_res' = [op |-> "get_pid", ret |-> Done(process),
                   had |-> process # NoChild, spawned |-> FALSE,
                   attempts |-> 0]
    /\ UNCHANGED <<process, server_process, children, running>>
    /\ UNCHANGED <<cryptvars, wsvars, monvars, logvars>>

\* start_server_internal
StartServerInternal(how) ==
    /\ IF server_process # NoChild
       THEN /\ srv_res' = [op |-> "start_server_internal",
                           ret |-> Failed("running"), had |-> TRUE,
                           spawned |-> FALSE, attempts |-> 0]
            /\ UNCHANGED <<server_process, children, running>>
       ELSE IF how = "spawned"
       THEN /\ children < MaxChildren
            /\ children' = children + 1
            /\ running' = running \cup {children + 1}
            /\ server_process' = children + 1
            /\ srv_res' = [op |-> "start_server_internal",
                           ret |-> Done(<<>>), had |-> FALSE,
                           spawned |-> TRUE, attempts |-> 0]
       ELSE /\ srv_res' = [op |-> "start_server_internal",
                           ret |-> IF how = "serving"
                                   THEN Done(<<>>) ELSE Failed(how),
                           had |-> FALSE, spawned |-> FALSE, attempts |-> 0]
            /\ UNCHANGED <<server_process, children, running>>
    /\ UNCHANGED process
    /\ UNCHANGED <<cryptvars, wsvars, monvars, logvars>>

\* stop_server_internal
StopServerInternal(killed) ==
    /\ server_process' = NoChild
    /\ running' = IF killed THEN running \ {server_process} ELSE running
    /\ srv_res' = [op |-> "stop_server_internal",
                   ret |-> IF server_process = NoChild \/ killed
                           THEN Done(<<>>) ELSE Failed("kill"),
                   had |-> server_process # NoChild, spawned |-> FALSE,
                   attempts |-> 0]
    /\ UNCHANGED <<process, children>>
    /\ UNCHANGED <<cryptvars, wsvars, monvars, logvars>>

ServerNext ==
    \/ \E how \in {"no_binary", "spawn_failed", "spawned"},
          ready_at \in 1..(MAX_HEALTH_CHECK_ATTEMPTS + 1) : Start(how, ready_at)
    \/ \E killed \in BOOLEAN : Stop(killed)
    \/ GetPid
    \/ \E how \in {"serving", "no_directory", "build_failed", "spawn_failed",
                   "spawned"} : StartServerInternal(how)
    \/ \E killed \in BOOLEAN : StopServerInternal(killed)

ServerSpec == Init /\ [][ServerNext]_vars

StartCalls == {"start", "start_server_internal"}
StopCalls == {"stop", "stop_server_internal"}
\* the child the holder of the last call holds
Held ==
    IF srv_res.op \in {"start", "stop", "get_pid"}
    THEN process ELSE server_process

\* C37: a start call that finds a child held returns the already running
\* error without spawning, a held child is never replaced by another, and
\* after a stop call, whatever it returned, no child is held; a stop call
\* that found none returns Ok.
AtMostOneChild ==
    /\ [](srv_res.op \in StartCalls /\ srv_res.had =>
            srv_res.ret = Failed("running") /\ ~srv_res.spawned)
    /\ [](srv_res.op \in StopCalls =>
            Held = NoChild /\ (~srv_res.had => srv_res.ret = Done(<<>>)))
    /\ [][/\ process' # process => NoChild \in {process, process'}
          /\ server_process' # server_process =>
                NoChild \in {server_process, server_process'}]_vars

AtMostOneChildWitness ==
    /\ srv_res.op = "start"
    /\ srv_res.ret = Failed("running")
    /\ process # NoChild
    /\ children >= 2

\* a start call that failed for want of the binary, at spawn, or at the
\* health checks
FailedStart ==
    /\ srv_res.op = "start"
    /\ srv_res.ret.err \in {"binary", "spawn", "health"}

\* C38: after a start call that returned Err for one of these three reasons
\* the manager holds no child, get_pid answers None, and the next start call
\* is not rejected as already running.
FailedStartLeavesStopped ==
    /\ [](FailedStart => process = NoChild)
    /\ [][FailedStart /\ srv_res'.op = "get_pid" =>
            srv_res'.ret = Done(NoChild)]_vars
    /\ [][FailedStart /\ srv_res'.op = "start" =>
            srv_res'.ret # Failed("running")]_vars

\* ---- the log calls (lib.rs) ----------------------------------------------
\* the limits a caller may pass
Limits ==
    {NoLimit} \cup {SomeLimit(k) : k \in {0, 1, 2, MAX_LOG_ENTRIES - 1,
                                           MAX_LOG_ENTRIES, MAX_LOG_ENTRIES + 1}}

AddLogEntry ==
    /\ Logged
    /\ log_res' = [op |-> "add", limit |-> NoLimit, logs |-> <<>>]
    /\ UNCHANGED <<cryptvars, wsvars, monvars, srvvars>>

GetBackendLogs(limit) ==
    /\ log_res' = [op |-> "get", limit |-> limit,
                   logs |-> get_backend_logs_internal(LOG_BUFFER, limit)]
    /\ UNCHANGED <<LOG_BUFFER, log_count>>
    /\ UNCHANGED <<cryptvars, wsvars, monvars, srvvars>>

LogNext ==
    \/ AddLogEntry
    \/ \E limit \in Limits : GetBackendLogs(limit)

LogSpec == Init /\ [][LogNext]_vars

\* the last n of the entries made so far, oldest first
MostRecent(n) == [i \in 1..n |-> log_count - n + i]
Smaller(a, b) == IF a < b THEN a ELSE b

\* C39: the log buffer holds at most 200 entries, they are the most recent
\* ones in insertion order, and get_backend_logs_internal(Some(k)) returns
\* the last min(k, len) of them in that order.
BoundedLogBuffer ==
    /\ Len(LOG_BUFFER) <= MAX_LOG_ENTRIES
    /\ LOG_BUFFER = MostRecent(Smaller(log_count, MAX_LOG_ENTRIES))
    /\ log_res.op = "get" /\ log_res.limit.some =>
          log_res.logs = MostRecent(Smaller(log_res.limit.val, Len(LOG_BUFFER)))

BoundedLogBufferWitness ==
    /\ log_count > MAX_LOG_ENTRIES
    /\ log_res.op = "get"
    /\ log_res.limit = SomeLimit(2)
    /\ log_res.logs = <<log_count - 1, log_count>>
====
